---- MODULE Spec2Model ----
(***************************************************************************)
(* A model of gammapy's effective-area tables (gammapy/irf/                *)
(* effective_area_table.py) and counts spectrum (gammapy/spectrum/         *)
(* counts_spectrum.py).                                                    *)
(*                                                                         *)
(* Numbers.  A float is modelled by an exact decimal m * 10^e, kept        *)
(* normalised (m carries no trailing zero).  The operations np.sqrt and    *)
(* np.log10 are only defined here where their result is again such a       *)
(* decimal; the inputs are drawn accordingly.                              *)
(*                                                                         *)
(* Arrays.  An ndarray is a record [shape, data]: shape is <<>> for a      *)
(* scalar, <<n>> for a vector, <<n, m>> for a matrix, and data holds the   *)
(* elements in C (row-major) order.                                        *)
(*                                                                         *)
(* Quantities.  An astropy Quantity is [cls, unit, shape, data], where     *)
(* cls is "Angle", "Quantity", or "float" for a bare untagged number.      *)
(***************************************************************************)
EXTENDS Integers, Sequences, FiniteSets, TLC

VARIABLES
    aeff,      \* the OffsetDependentTableEffectiveArea instance, or NoObject
    arf,       \* the TableEffectiveArea instance, or NoObject
    spectra,   \* the CountsSpectrum instances that exist
    last,      \* the call that just returned or raised, or NoCall
    hist       \* history: what the callers asked of set_interpolation_method

vars == <<aeff, arf, spectra, last, hist>>

---------------------------------------------------------------------------
(* Decimal floats                                                          *)

RECURSIVE DecNorm(_, _)
DecNorm(m, e) ==
    IF m = 0 THEN [m |-> 0, e |-> 0]
    ELSE IF m % 10 = 0 THEN DecNorm(m \div 10, e + 1)
    ELSE [m |-> m, e |-> e]

RECURSIVE Pow10(_)
Pow10(k) == IF k <= 0 THEN 1 ELSE 10 * Pow10(k - 1)

Min(a, b) == IF a <= b THEN a ELSE b

Abs(n) == IF n < 0 THEN -n ELSE n

DecInt(n) == DecNorm(n, 0)

\* The mantissa of a when written with exponent e0 <= a.e.
DecAt(a, e0) == a.m * Pow10(a.e - e0)

\* The integer a decimal with a non-negative exponent stands for.
DecToInt(a) == CASE a.e >= 0 -> a.m * Pow10(a.e)

DecAdd(a, b) ==
    LET e0 == Min(a.e, b.e) IN DecNorm(DecAt(a, e0) + DecAt(b, e0), e0)

DecSub(a, b) ==
    LET e0 == Min(a.e, b.e) IN DecNorm(DecAt(a, e0) - DecAt(b, e0), e0)

DecAbs(a) == [m |-> Abs(a.m), e |-> a.e]

DecLess(a, b) ==
    LET e0 == Min(a.e, b.e) IN DecAt(a, e0) < DecAt(b, e0)

DecMul(a, b) == DecNorm(a.m * b.m, a.e + b.e)

\* a / d for an integer d > 0, where the quotient is a finite decimal.
RECURSIVE DecDivInt(_, _)
DecDivInt(a, d) ==
    IF a.m % d = 0 THEN DecNorm(a.m \div d, a.e)
    ELSE DecDivInt([m |-> a.m * 10, e |-> a.e - 1], d)

RECURSIVE ISqrtFrom(_, _)
ISqrtFrom(n, r) == IF (r + 1) * (r + 1) > n THEN r ELSE ISqrtFrom(n, r + 1)

\* np.sqrt, where the argument is the square of a decimal.
DecSqrt(a) ==
    LET b == IF a.e % 2 = 0 THEN a ELSE [m |-> a.m * 10, e |-> a.e - 1]
        r == ISqrtFrom(b.m, 0)
    IN  CASE r * r = b.m -> DecNorm(r, b.e \div 2)

\* np.log10, where the argument is a power of ten.
DecLog10(a) == CASE a.m = 1 -> a.e

---------------------------------------------------------------------------
(* Units and quantities (astropy.units)                                    *)

EnergyUnits == {"TeV", "GeV"}
AngleUnits == {"deg", "arcmin"}
AreaUnits == {"m2", "cm2"}

PhysicalType(unit) ==
    CASE unit \in EnergyUnits -> "energy"
      [] unit \in AngleUnits -> "angle"
      [] unit \in AreaUnits -> "area"
      [] OTHER -> "dimensionless"

\* The size of a unit as num / den * 10^e10 of its type's reference unit.
UnitScale(unit) ==
    CASE unit = "GeV" -> [num |-> 1, den |-> 1, e10 |-> -3]
      [] unit = "arcmin" -> [num |-> 1, den |-> 60, e10 |-> 0]
      [] unit = "cm2" -> [num |-> 1, den |-> 1, e10 |-> -4]
      [] OTHER -> [num |-> 1, den |-> 1, e10 |-> 0]

\* One number of unit `from` expressed in unit `to`.
DecConvert(a, from, to) ==
    LET f == UnitScale(from)
        t == UnitScale(to)
    IN  DecDivInt(DecNorm(a.m * f.num * t.den, a.e + f.e10 - t.e10),
                  f.den * t.num)

Quantity(data, shape, unit) ==
    [cls |-> "Quantity", unit |-> unit, shape |-> shape, data |-> data]

Angle(data, shape, unit) ==
    [cls |-> "Angle", unit |-> unit, shape |-> shape, data |-> data]

\* A bare number or list: no unit, no Quantity class.
Untagged(data, shape) ==
    [cls |-> "float", unit |-> "", shape |-> shape, data |-> data]

\* isinstance(q, Quantity): Angle is a subclass of Quantity.
IsQuantity(q) == q.cls \in {"Quantity", "Angle"}

\* isinstance(q, Angle)
IsAngle(q) == q.cls = "Angle"

\* Whether q.to(unit) succeeds; otherwise it raises UnitConversionError.
Convertible(q, unit) == PhysicalType(q.unit) = PhysicalType(unit)

\* q.to(unit)
To(q, unit) ==
    [q EXCEPT !.unit = unit,
              !.data = [k \in 1..Len(q.data) |->
                          DecConvert(q.data[k], q.unit, unit)]]

---------------------------------------------------------------------------
(* Arrays (numpy)                                                          *)

\* The number of elements of an array of the given shape.
Size(shape) ==
    CASE Len(shape) = 0 -> 1
      [] Len(shape) = 1 -> shape[1]
      [] Len(shape) = 2 -> shape[1] * shape[2]

\* Whether two shapes (each a scalar's or a vector's) broadcast together.
Broadcastable(s1, s2) ==
    \/ Len(s1) = 0
    \/ Len(s2) = 0
    \/ s1 = s2
    \/ s1 = <<1>>
    \/ s2 = <<1>>

\* np.broadcast(s1, s2).shape
BroadcastShape(s1, s2) ==
    IF Len(s1) = 0 THEN s2
    ELSE IF Len(s2) = 0 THEN s1
    ELSE IF s1 = <<1>> THEN s2
    ELSE s1

\* The element of a scalar or vector that broadcasting puts at position k.
BroadcastAt(arr, k) == IF Size(arr.shape) = 1 THEN arr.data[1] ELSE arr.data[k]

\* ndarray.squeeze(): the axes of length one are dropped.
Squeeze(arr) ==
    [arr EXCEPT !.shape = SelectSeq(arr.shape, LAMBDA n : n # 1)]

RECURSIVE SetToSortedSeq(_)
SetToSortedSeq(S) ==
    IF S = {} THEN <<>>
    ELSE LET lo == CHOOSE a \in S : \A b \in S : a <= b
         IN  <<lo>> \o SetToSortedSeq(S \ {lo})

StrictlyIncreasing(s) == \A k \in 1..(Len(s) - 1) : s[k] < s[k + 1]

RECURSIVE Gcd(_, _)
Gcd(a, b) == IF b = 0 THEN a ELSE Gcd(b, a % b)

---------------------------------------------------------------------------
(* Values an interpolator returns: NaN, an exact rational num / den, or    *)
(* the value s(x, y) of the fitted spline surface, a finite float whose    *)
(* digits FITPACK decides.                                                 *)

NaN == [kind |-> "nan", num |-> 0, den |-> 1, at |-> <<0, 0>>]

Rational(num, den) ==
    LET g == Gcd(Abs(num), den)
    IN  [kind |-> "rational", num |-> num \div g, den |-> den \div g,
         at |-> <<0, 0>>]

SplineValue(x, y) == [kind |-> "spline", num |-> 0, den |-> 1, at |-> <<x, y>>]

IsFinite(v) == v.kind # "nan"

---------------------------------------------------------------------------
(* scipy.interpolate.LinearNDInterpolator over the scattered sample set.   *)
(* The samples lie on a rectangular lattice, whose Delaunay cells are the  *)
(* lattice cells; Qhull splits each along one of its two diagonals, and    *)
(* tri records which: cell (i, j) is split along its rising diagonal when  *)
(* (tri.a * i + tri.b * j + tri.c) is even, along the falling one if odd.  *)

LinearNDInterpolator(coord, values, tri) ==
    [points |-> coord, values |-> values, tri |-> tri]

\* The sample value paired with the point (x, y).
SampleAt(lin, x, y) ==
    lin.values[CHOOSE k \in 1..Len(lin.points) : lin.points[k] = <<x, y>>]

\* The lowest k with line[k] <= c <= line[k + 1].
CellIndex(line, c) ==
    CHOOSE k \in 1..(Len(line) - 1) :
        /\ line[k] <= c
        /\ c <= line[k + 1]
        /\ \A l \in 1..(k - 1) : ~(line[l] <= c /\ c <= line[l + 1])

\* Barycentric interpolation at one point; NaN outside the convex hull.
LinearAt(lin, x, y) ==
    LET X == SetToSortedSeq({lin.points[k][1] : k \in 1..Len(lin.points)})
        Y == SetToSortedSeq({lin.points[k][2] : k \in 1..Len(lin.points)})
    IN  IF x < X[1] \/ x > X[Len(X)] \/ y < Y[1] \/ y > Y[Len(Y)] THEN NaN
        ELSE
        LET i == CellIndex(X, x)
            j == CellIndex(Y, y)
            W == X[i + 1] - X[i]
            H == Y[j + 1] - Y[j]
            u == x - X[i]
            v == y - Y[j]
            f00 == SampleAt(lin, X[i], Y[j])
            f10 == SampleAt(lin, X[i + 1], Y[j])
            f01 == SampleAt(lin, X[i], Y[j + 1])
            f11 == SampleAt(lin, X[i + 1], Y[j + 1])
            rising == (lin.tri.a * i + lin.tri.b * j + lin.tri.c) % 2 = 0
            num ==
                IF rising THEN
                    IF u * H >= v * W
                    THEN f00 * W * H + (f10 - f00) * u * H + (f11 - f10) * v * W
                    ELSE f00 * W * H + (f01 - f00) * v * W + (f11 - f01) * u * H
                ELSE
                    IF u * H + v * W <= W * H
                    THEN f00 * W * H + (f10 - f00) * u * H + (f01 - f00) * v * W
                    ELSE f11 * W * H + (f01 - f11) * (W - u) * H
                                     + (f10 - f11) * (H - v) * W
        IN  Rational(num, W * H)

\* LinearNDInterpolator.__call__(x, y): the arguments are broadcast together.
LinearCall(lin, x, y) ==
    LET shape == BroadcastShape(x.shape, y.shape)
    IN  [shape |-> shape,
         data |-> [k \in 1..Size(shape) |->
                     LinearAt(lin, BroadcastAt(x, k), BroadcastAt(y, k))]]

---------------------------------------------------------------------------
(* scipy.interpolate.RectBivariateSpline over the rectangular mesh.        *)

\* The default degrees kx = ky = 3 of RectBivariateSpline.
SplineDegree == 3

\* Whether FITPACK accepts the mesh: axes strictly increasing, more points
\* on each axis than the degree, z of shape (len(x), len(y)).
SplineAccepts(x, y, z) ==
    /\ StrictlyIncreasing(x)
    /\ StrictlyIncreasing(y)
    /\ Len(x) > SplineDegree
    /\ Len(y) > SplineDegree
    /\ z.shape = <<Len(x), Len(y)>>

RectBivariateSpline(x, y, z) == [x |-> x, y |-> y, z |-> z]

\* RectBivariateSpline.__call__(x, y): evaluation on the grid x times y.
SplineCall(spl, x, y) ==
    LET nx == Size(x.shape)
        ny == Size(y.shape)
    IN  [shape |-> <<nx, ny>>,
         data |-> [k \in 1..(nx * ny) |->
                     SplineValue(x.data[((k - 1) \div ny) + 1],
                                 y.data[((k - 1) % ny) + 1])]]

---------------------------------------------------------------------------
(* What a call gives back: a value, or the exception it raised.            *)

NoQuantity == [cls |-> "unset", unit |-> "", shape |-> <<>>, data |-> <<>>]

Returned(value) == [error |-> "none", value |-> value]

Raised(error) == [error |-> error, value |-> NoQuantity]

---------------------------------------------------------------------------
(* class OffsetDependentTableEffectiveArea                                 *)

\* The object as __init__ finds it: no attribute assigned.  `assigned`
\* lists the attributes set so far, `error` the exception __init__ raised.
Aeff2DBlank ==
    [error |-> "none", assigned |-> {},
     energ_lo |-> NoQuantity, energ_hi |-> NoQuantity,
     offset_lo |-> NoQuantity, offset_hi |-> NoQuantity,
     eff_area |-> NoQuantity, eff_area_reco |-> NoQuantity,
     offset |-> NoQuantity, energy |-> NoQuantity,
     _linear |-> LinearNDInterpolator(<<>>, <<>>, [a |-> 0, b |-> 0, c |-> 0]),
     _spline |-> RectBivariateSpline(<<>>, <<>>, [shape |-> <<0>>, data |-> <<>>]),
     _interpolation_method |-> ""]

\* quantity.value, for integer-valued elements
IntValues(q) == [k \in 1..Len(q.data) |-> DecToInt(q.data[k])]

\* np.log10(quantity.value)
Log10Values(q) == [k \in 1..Len(q.data) |-> DecLog10(q.data[k])]

\* (offset_hi + offset_lo) / 2: the sum takes the unit of its left operand.
OffsetCenters(offset_hi, offset_lo) ==
    [offset_hi EXCEPT
       !.data = [k \in 1..Len(offset_hi.data) |->
                   DecDivInt(DecAdd(offset_hi.data[k],
                                    DecConvert(offset_lo.data[k],
                                               offset_lo.unit, offset_hi.unit)),
                             2)]]

\* np.sqrt(energ_lo * energ_hi), for edges that share a unit u: the unit of
\* the product is u^2 and that of its root u.
EnergyCenters(energ_lo, energ_hi) ==
    [energ_lo EXCEPT
       !.data = [k \in 1..Len(energ_lo.data) |->
                   DecSqrt(DecMul(energ_lo.data[k], energ_hi.data[k]))]]

\* A faulty coordinate list, energy-major: [(xx, yy) for yy in y for xx in x].
CrossProduct_energy_major(x, y) ==
    [k \in 1..(Len(x) * Len(y)) |->
       <<x[((k - 1) % Len(x)) + 1], y[((k - 1) \div Len(x)) + 1]>>]

\* coord = [(xx, yy) for xx in x for yy in y]
CrossProduct(x, y) ==
    [k \in 1..(Len(x) * Len(y)) |->
       <<x[((k - 1) \div Len(y)) + 1], y[((k - 1) % Len(y)) + 1]>>]

\* Whether Qhull can triangulate the lattice: it needs three points that
\* are not collinear.
QhullAccepts(x, y) ==
    /\ Cardinality({x[k] : k \in 1..Len(x)}) >= 2
    /\ Cardinality({y[k] : k \in 1..Len(y)}) >= 2

\* _prepare_linear_interpolator; tri is the triangulation Qhull produces.
PrepareLinearInterpolator(self, tri) ==
    LET x == IntValues(self.offset)
        y == Log10Values(self.energy)
        coord == CrossProduct(x, y)
    IN  LinearNDInterpolator(coord, IntValues(self.eff_area), tri)

\* _prepare_spline_interpolator
PrepareSplineInterpolator(self) ==
    LET x == IntValues(self.offset)
        y == Log10Values(self.energy)
    IN  RectBivariateSpline(x, y, [shape |-> self.eff_area.shape,
                                   data |-> IntValues(self.eff_area)])

Fail(self, error) == [self EXCEPT !.error = error]

\* __init__, statement by statement; an exception leaves the object with
\* the attributes assigned before it.
OffsetDependentTableEffectiveArea(energ_lo, energ_hi, offset_lo, offset_hi, eff_area, eff_area_reco, tri) ==
    LET s0 == Aeff2DBlank
    IN
    IF ~IsQuantity(energ_lo) \/ ~IsQuantity(energ_hi) THEN Fail(s0, "ValueError")
    ELSE IF ~IsAngle(offset_lo) \/ ~IsAngle(offset_hi) THEN Fail(s0, "ValueError")
    ELSE IF ~IsQuantity(eff_area) \/ ~IsQuantity(eff_area_reco)
         THEN Fail(s0, "ValueError")
    ELSE IF ~Convertible(energ_lo, "TeV") THEN Fail(s0, "UnitConversionError")
    ELSE
    LET s1 == [s0 EXCEPT !.energ_lo = To(energ_lo, "TeV"),
                         !.assigned = @ \cup {"energ_lo"}]
    IN
    IF ~Convertible(energ_hi, "TeV") THEN Fail(s1, "UnitConversionError")
    ELSE
    LET s2 == [s1 EXCEPT !.energ_hi = To(energ_hi, "TeV"),
                         !.offset_lo = To(offset_lo, "deg"),
                         !.offset_hi = To(offset_hi, "deg"),
                         !.assigned = @ \cup {"energ_hi", "offset_lo", "offset_hi"}]
    IN
    IF ~Convertible(eff_area, "m2") THEN Fail(s2, "UnitConversionError")
    ELSE
    LET s3 == [s2 EXCEPT !.eff_area = To(eff_area, "m2"),
                         !.assigned = @ \cup {"eff_area"}]
    IN
    IF ~Convertible(eff_area_reco, "m2") THEN Fail(s3, "UnitConversionError")
    ELSE
    LET s4 == [s3 EXCEPT !.eff_area_reco = To(eff_area_reco, "m2"),
                         !.offset = OffsetCenters(offset_hi, offset_lo),
                         !.energy = EnergyCenters(energ_lo, energ_hi),
                         !.assigned = @ \cup {"eff_area_reco", "offset", "energy"}]
        x == IntValues(s4.offset)
        y == Log10Values(s4.energy)
    IN
    IF Len(x) * Len(y) # Len(s4.eff_area.data) THEN Fail(s4, "ValueError")
    ELSE IF ~QhullAccepts(x, y) THEN Fail(s4, "QhullError")
    ELSE
    LET s5 == [s4 EXCEPT !._linear = PrepareLinearInterpolator(s4, tri),
                         !.assigned = @ \cup {"_linear"}]
    IN
    IF ~SplineAccepts(x, y, s5.eff_area) THEN Fail(s5, "ValueError")
    ELSE [s5 EXCEPT !._spline = PrepareSplineInterpolator(s5),
                    !._interpolation_method = "linear",
                    !.assigned = @ \cup {"_spline", "_interpolation_method"}]

\* A faulty evaluate that checks neither the classes nor the units of its
\* arguments.
evaluate_unchecked(self, offset, energy) ==
    LET off == To(offset, "deg")
        en == To(energy, "TeV")
        x == [shape |-> off.shape, data |-> IntValues(off)]
        y == [shape |-> en.shape, data |-> Log10Values(en)]
    IN  IF self._interpolation_method = "linear" THEN
            IF ~Broadcastable(x.shape, y.shape) THEN Raised("ValueError")
            ELSE LET val == LinearCall(self._linear, x, y)
                 IN  Returned(Quantity(val.data, val.shape, self.eff_area.unit))
        ELSE IF self._interpolation_method = "spline" THEN
            LET val == Squeeze(SplineCall(self._spline, x, y))
            IN  Returned(Quantity(val.data, val.shape, self.eff_area.unit))
        ELSE Raised("NotImplementedError")

\* evaluate(offset, energy)
evaluate(self, offset, energy) ==
    IF ~IsQuantity(energy) \/ ~IsAngle(offset) THEN Raised("ValueError")
    ELSE IF ~Convertible(offset, "deg") THEN Raised("UnitConversionError")
    ELSE IF ~Convertible(energy, "TeV") THEN Raised("UnitConversionError")
    ELSE
    LET off == To(offset, "deg")
        en == To(energy, "TeV")
        x == [shape |-> off.shape, data |-> IntValues(off)]
        y == [shape |-> en.shape, data |-> Log10Values(en)]
    IN  IF self._interpolation_method = "linear" THEN
            IF ~Broadcastable(x.shape, y.shape) THEN Raised("ValueError")
            ELSE LET val == LinearCall(self._linear, x, y)
                 IN  Returned(Quantity(val.data, val.shape, self.eff_area.unit))
        ELSE IF self._interpolation_method = "spline" THEN
            LET val == Squeeze(SplineCall(self._spline, x, y))
            IN  Returned(Quantity(val.data, val.shape, self.eff_area.unit))
        ELSE Raised("NotImplementedError")

\* The default value [] of the optional array arguments.
EmptyList == [cls |-> "float", unit |-> "", shape |-> <<0>>, data |-> <<>>]

\* energies == [], offsets == []
IsEmptyList(q) == q.cls = "float" /\ q.shape = <<0>>

\* A faulty eval_at_offset whose default energies are the lower bin edges.
eval_at_offset_energ_lo(self, offset, energies) ==
    IF ~IsAngle(offset) THEN Raised("ValueError")
    ELSE LET enarray == IF IsEmptyList(energies) THEN self.energ_lo ELSE energies
         IN  evaluate(self, offset, enarray)

\* eval_at_offset(offset, energies=[])
eval_at_offset(self, offset, energies) ==
    IF ~IsAngle(offset) THEN Raised("ValueError")
    ELSE LET enarray == IF IsEmptyList(energies) THEN self.energy ELSE energies
         IN  evaluate(self, offset, enarray)

\* eval_at_energy(energy, offsets=[])
eval_at_energy(self, energy, offsets) ==
    IF ~IsQuantity(energy) THEN Raised("ValueError")
    ELSE LET offarray == IF IsEmptyList(offsets) THEN self.offset ELSE offsets
         IN  evaluate(self, offarray, energy)

\* The names set_interpolation_method accepts.
Methods == {"linear", "spline"}

\* A faulty set_interpolation_method that builds the linear interpolator
\* anew, over whatever triangulation Qhull then produces.
set_interpolation_method_rebuilding(self, method) ==
    IF method \notin Methods
    THEN [error |-> "NotImplementedError", self |-> self]
    ELSE [error |-> "none",
          self |-> [self EXCEPT
                      !._interpolation_method = method,
                      !._linear = PrepareLinearInterpolator(
                                      self, [a |-> 0, b |-> 0, c |-> 1])]]

\* A faulty set_interpolation_method that validates the name and forgets
\* to store it.
set_interpolation_method_unstored(self, method) ==
    IF method \notin Methods
    THEN [error |-> "NotImplementedError", self |-> self]
    ELSE [error |-> "none", self |-> self]

\* A faulty set_interpolation_method that stores the name before it
\* validates it.
set_interpolation_method_stored_first(self, method) ==
    LET stored == [self EXCEPT !._interpolation_method = method]
    IN  IF method \notin Methods
        THEN [error |-> "NotImplementedError", self |-> stored]
        ELSE [error |-> "none", self |-> stored]

\* set_interpolation_method(method): the object afterwards, and the error.
set_interpolation_method(self, method) ==
    IF method \notin Methods
    THEN [error |-> "NotImplementedError", self |-> self]
    ELSE [error |-> "none",
          self |-> [self EXCEPT !._interpolation_method = method]]

---------------------------------------------------------------------------
(* class TableEffectiveArea                                                *)

\* validate_physical_type(name, value, physical_type) does not raise.
ValidPhysicalType(value, physical_type) ==
    IsQuantity(value) /\ PhysicalType(value.unit) = physical_type

ArfBlank ==
    [error |-> "none", assigned |-> {},
     energy_hi |-> NoQuantity, energy_lo |-> NoQuantity,
     effective_area |-> NoQuantity,
     energy_thresh_lo |-> NoQuantity, energy_thresh_hi |-> NoQuantity]

\* __init__: every input is validated before the first attribute is set.
TableEffectiveArea(energy_lo, energy_hi, effective_area, energy_thresh_lo, energy_thresh_hi) ==
    IF \/ ~ValidPhysicalType(energy_lo, "energy")
       \/ ~ValidPhysicalType(energy_hi, "energy")
       \/ ~ValidPhysicalType(effective_area, "area")
       \/ ~ValidPhysicalType(energy_thresh_lo, "energy")
       \/ ~ValidPhysicalType(energy_thresh_hi, "energy")
    THEN Fail(ArfBlank, "ValueError")
    ELSE [ArfBlank EXCEPT
            !.energy_hi = To(energy_hi, "TeV"),
            !.energy_lo = To(energy_lo, "TeV"),
            !.effective_area = To(effective_area, "m2"),
            !.energy_thresh_lo = To(energy_thresh_lo, "TeV"),
            !.energy_thresh_hi = To(energy_thresh_hi, "TeV"),
            !.assigned = {"energy_hi", "energy_lo", "effective_area",
                          "energy_thresh_lo", "energy_thresh_hi"}]

\* A faulty argmin: the last index of a smallest element.
ArgMinLast(s) ==
    CHOOSE i \in 1..Len(s) :
        /\ \A k \in 1..Len(s) : ~DecLess(s[k], s[i])
        /\ \A k \in (i + 1)..Len(s) : DecLess(s[i], s[k])

\* np.argmin: the first index of a smallest element.
ArgMin(s) ==
    CHOOSE i \in 1..Len(s) :
        /\ \A k \in 1..Len(s) : ~DecLess(s[k], s[i])
        /\ \A k \in 1..(i - 1) : DecLess(s[i], s[k])

\* effective_area_at_energy(energy), for a scalar energy
effective_area_at_energy(self, energy) ==
    IF ~IsQuantity(energy) THEN Raised("ValueError")
    ELSE IF ~Convertible(energy, self.energy_hi.unit)
         THEN Raised("UnitConversionError")
    ELSE
    LET e == To(energy, self.energy_hi.unit).data[1]
        dist == [k \in 1..Len(self.energy_hi.data) |->
                   DecAbs(DecSub(self.energy_hi.data[k], e))]
        i == ArgMin(dist)
    IN  Returned(Quantity(<<self.effective_area.data[i]>>, <<>>,
                          self.effective_area.unit))

---------------------------------------------------------------------------
(* class CountsSpectrum.  counts is a sequence of integers, energy_bounds  *)
(* the Quantity of the bin edges, meta a function from keys to values      *)
(* (livetime in seconds).                                                  *)

\* EnergyBounds.nbins: one bin between each two neighbouring edges.
Nbins(energy) == Len(energy.data) - 1

\* Bunch.setdefault(key, value)
SetDefault(meta, key, value) ==
    IF key \in DOMAIN meta THEN meta ELSE meta @@ (key :> value)

\* The value Bunch() of an absent meta argument.
EmptyMeta == [key \in {} |-> 0]

NoSpectrum ==
    [error |-> "none", assigned |-> {}, counts |-> <<>>,
     energy_bounds |-> NoQuantity, meta |-> EmptyMeta, channels |-> <<>>]

\* A faulty __init__ that does not compare the sizes.
CountsSpectrum_unchecked(counts, energy, meta) ==
    [error |-> "none",
     assigned |-> {"counts", "energy_bounds", "meta", "channels"},
     counts |-> counts,
     energy_bounds |-> energy,
     meta |-> SetDefault(SetDefault(meta, "livetime", 0), "backscal", 1),
     channels |-> [k \in 1..Nbins(energy) |-> k]]

\* __init__(counts, energy, meta): meta is EmptyMeta when not given.
CountsSpectrum(counts, energy, meta) ==
    IF Len(counts) # Nbins(energy) THEN Fail(NoSpectrum, "ValueError")
    ELSE [error |-> "none",
          assigned |-> {"counts", "energy_bounds", "meta", "channels"},
          counts |-> counts,
          energy_bounds |-> energy,
          meta |-> SetDefault(SetDefault(meta, "livetime", 0), "backscal", 1),
          channels |-> [k \in 1..Nbins(energy) |-> k]]

\* self.energy_bounds != other.energy_bounds, element by element; the
\* right operand is converted to the unit of the left one.
EdgesNotEqual(a, b) ==
    [k \in 1..Len(a.data) |->
       a.data[k] # DecConvert(b.data[k], b.unit, a.unit)]

\* A faulty __add__ that keeps the live time of its left operand.
CountsAdd_livetime_of_self(self, other) ==
    IF Len(self.energy_bounds.data) # Len(other.energy_bounds.data)
    THEN Fail(NoSpectrum, "ShapeError")
    ELSE
    LET ne == EdgesNotEqual(self.energy_bounds, other.energy_bounds)
    IN  IF \A k \in 1..Len(ne) : ne[k]
        THEN Fail(NoSpectrum, "ValueError")
        ELSE CountsSpectrum(
                 [k \in 1..Len(self.counts) |-> self.counts[k] + other.counts[k]],
                 self.energy_bounds,
                 [livetime |-> self.meta.livetime])

\* __add__(other): the new spectrum, or the exception.  numpy refuses to
\* compare edge arrays of different lengths.
CountsAdd(self, other) ==
    IF Len(self.energy_bounds.data) # Len(other.energy_bounds.data)
    THEN Fail(NoSpectrum, "ShapeError")
    ELSE
    LET ne == EdgesNotEqual(self.energy_bounds, other.energy_bounds)
    IN  IF \A k \in 1..Len(ne) : ne[k]
        THEN Fail(NoSpectrum, "ValueError")
        ELSE CountsSpectrum(
                 [k \in 1..Len(self.counts) |-> self.counts[k] + other.counts[k]],
                 self.energy_bounds,
                 [livetime |-> self.meta.livetime + other.meta.livetime])

\* A faulty __mul__ that scales the live time with the counts.
CountsMul_livetime_scaled(self, other) ==
    CountsSpectrum([k \in 1..Len(self.counts) |-> self.counts[k] * other],
                   self.energy_bounds,
                   [livetime |-> self.meta.livetime * other])

\* __mul__(other)
CountsMul(self, other) ==
    CountsSpectrum([k \in 1..Len(self.counts) |-> self.counts[k] * other],
                   self.energy_bounds,
                   [livetime |-> self.meta.livetime])

\* np.histogram(a, bins)[0]: bin k takes the values in [bins[k], bins[k+1]),
\* the last bin also those equal to its upper edge.
Histogram(a, bins) ==
    [k \in 1..(Len(bins) - 1) |->
       Cardinality({i \in 1..Len(a) :
                      /\ ~DecLess(a[i], bins[k])
                      /\ \/ DecLess(a[i], bins[k + 1])
                         \/ k = Len(bins) - 1 /\ a[i] = bins[k + 1]})]

\* from_eventlist(event_list, bins), for an event list given as EventList:
\* a record of the event energies and the observation live time.  The meta
\* dictionary holding the live time is built, and cls is called without it.
from_eventlist(event_list, bins) ==
    LET energy == To(event_list.energy, bins.unit)
        val == Histogram(energy.data, bins.data)
        livetime == event_list.observation_live_time_duration
        meta == [livetime |-> livetime]
    IN  CountsSpectrum(val, bins, EmptyMeta)

---------------------------------------------------------------------------
(* Inputs: the bounded families the constructors' and calls' arguments are *)
(* drawn from.                                                             *)

MaxExtraOffsetBins == 1
MaxExtraEnergyBins == 0
MaxAreaSeed == 1
MaxQueryLen == 2

\* Offset grids down to one bin too few for the spline; energy grids from
\* the smallest the spline accepts.
OffsetBinCounts == SplineDegree..(SplineDegree + 1 + MaxExtraOffsetBins)
EnergyBinCounts == (SplineDegree + 1)..(SplineDegree + 1 + MaxExtraEnergyBins)

\* Offset bins [2(i-1), 2(i-1) + width] degree; width 0 is the GCTAAeff2D
\* convention offset_hi = offset_lo.
BinWidths == {0, 2}

\* The number that is `deg` degrees in the given angle unit.
InAngleUnit(deg, unit) == DecConvert(DecInt(deg), "deg", unit)

\* The number that is 10^k TeV in the given energy unit.
InEnergyUnit(k, unit) == DecConvert(DecNorm(1, k), "TeV", unit)

OffsetLo(n, unit) ==
    Angle([i \in 1..n |-> InAngleUnit(2 * (i - 1), unit)], <<n>>, unit)

OffsetHi(n, width, unit) ==
    Angle([i \in 1..n |-> InAngleUnit(2 * (i - 1) + width, unit)], <<n>>, unit)

\* Energy bins [10^(2j-2), 10^(2j)] TeV.
EnergLo(n, unit) ==
    Quantity([j \in 1..n |-> InEnergyUnit(2 * (j - 1), unit)], <<n>>, unit)

EnergHi(n, unit) ==
    Quantity([j \in 1..n |-> InEnergyUnit(2 * j, unit)], <<n>>, unit)

\* The area matrix area[i][j] = 10 i + j + seed i j + extra (in m^2),
\* flattened in C order.
AreaMatrix(no, ne, seed, extra, unit) ==
    Quantity([k \in 1..(no * ne) |->
                LET i == ((k - 1) \div ne) + 1
                    j == ((k - 1) % ne) + 1
                IN  DecConvert(DecInt(10 * i + j + seed * i * j + extra),
                               "m2", unit)],
             <<no, ne>>, unit)

\* The splits of the lattice cells Qhull may produce: all along the rising
\* diagonal, all along the falling one, or alternating.
Triangulations ==
    {[a |-> 0, b |-> 0, c |-> 0], [a |-> 0, b |-> 0, c |-> 1],
     [a |-> 1, b |-> 1, c |-> 0]}

\* A table built from well-formed inputs.
Aeff2DFrom(no, ne, width, seed, eu, ou, au, tri) ==
    OffsetDependentTableEffectiveArea(
        EnergLo(ne, eu), EnergHi(ne, eu), OffsetLo(no, ou), OffsetHi(no, width, ou),
        AreaMatrix(no, ne, seed, 0, au), AreaMatrix(no, ne, seed, 5, au), tri)

\* Constructions from inputs one of which is not what __init__ expects.
Aeff2DFromBad(bad) ==
    LET no == SplineDegree + 1
        ne == SplineDegree + 1
        elo == EnergLo(ne, "TeV")
        ehi == EnergHi(ne, "GeV")
        olo == OffsetLo(no, "deg")
        ohi == OffsetHi(no, 2, "deg")
        ea == AreaMatrix(no, ne, 0, 0, "m2")
        ear == AreaMatrix(no, ne, 0, 5, "m2")
        tri == [a |-> 0, b |-> 0, c |-> 0]
    IN  CASE bad = "energ_lo untagged" ->
               OffsetDependentTableEffectiveArea(
                   Untagged(elo.data, elo.shape), ehi, olo, ohi, ea, ear, tri)
          [] bad = "energ_hi an angle" ->
               OffsetDependentTableEffectiveArea(
                   elo, Angle(ehi.data, ehi.shape, "deg"), olo, ohi, ea, ear, tri)
          [] bad = "offset_lo no Angle" ->
               OffsetDependentTableEffectiveArea(
                   elo, ehi, Quantity(olo.data, olo.shape, "deg"), ohi, ea, ear, tri)
          [] bad = "eff_area an energy" ->
               OffsetDependentTableEffectiveArea(
                   elo, ehi, olo, ohi, Quantity(ea.data, ea.shape, "TeV"), ear, tri)
          [] bad = "eff_area_reco an energy" ->
               OffsetDependentTableEffectiveArea(
                   elo, ehi, olo, ohi, ea, Quantity(ear.data, ear.shape, "TeV"), tri)

BadInputs ==
    {"energ_lo untagged", "energ_hi an angle", "offset_lo no Angle",
     "eff_area an energy", "eff_area_reco an energy"}

\* Element k of a vector quantity, as a scalar of the same class and unit.
ElementOf(q, k) == [q EXCEPT !.shape = <<>>, !.data = <<q.data[k]>>]

ScalarAngle(deg, unit) == Angle(<<InAngleUnit(deg, unit)>>, <<>>, unit)

ScalarEnergy(k, unit) == Quantity(<<InEnergyUnit(k, unit)>>, <<>>, unit)

\* Offsets to query: the table's own bin centers, angles on and off the
\* grid, ascending vectors, and arguments that are no Angle.
OffsetArgs(self) ==
    {ElementOf(self.offset, i) : i \in 1..Len(self.offset.data)}
    \cup {ScalarAngle(d, "deg") : d \in {0, 2, 3, 8, 100}}
    \cup {ScalarAngle(2, "arcmin")}
    \cup {Angle([k \in 1..n |-> DecInt(2 * k - 1)], <<n>>, "deg") : n \in 1..MaxQueryLen}
    \cup {Untagged(<<DecInt(1)>>, <<>>),
          Quantity(<<DecInt(1)>>, <<>>, "deg"),
          Quantity(<<DecInt(10)>>, <<>>, "TeV")}

\* Energies to query: the table's own bin centers, energies on and off the
\* grid, ascending vectors, and arguments that are no energy.
EnergyArgs(self) ==
    {ElementOf(self.energy, j) : j \in 1..Len(self.energy.data)}
    \cup {ScalarEnergy(k, "TeV") : k \in {0, 2, 3, 9}}
    \cup {ScalarEnergy(2, "GeV")}
    \cup {Quantity([k \in 1..n |-> DecNorm(1, 2 * k - 1)], <<n>>, "TeV") : n \in 1..MaxQueryLen}
    \cup {Untagged(<<DecInt(10)>>, <<>>),
          Angle(<<DecInt(1)>>, <<>>, "deg"),
          Quantity(<<DecInt(10)>>, <<>>, "m2")}

\* What eval_at_offset is given as energies, eval_at_energy as offsets:
\* nothing (the default []), or an array of the other coordinate's kind.
OptionalEnergyArgs(self) ==
    {EmptyList, ElementOf(self.energy, 1), ScalarEnergy(2, "TeV"),
     Angle(<<DecInt(1)>>, <<>>, "deg")}
    \cup {Quantity([k \in 1..n |-> DecNorm(1, 2 * k - 1)], <<n>>, "TeV") : n \in 1..MaxQueryLen}

OptionalOffsetArgs(self) ==
    {EmptyList, ElementOf(self.offset, 1), ScalarAngle(2, "deg"),
     Quantity(<<DecInt(1)>>, <<>>, "deg")}
    \cup {Angle([k \in 1..n |-> DecInt(2 * k - 1)], <<n>>, "deg") : n \in 1..MaxQueryLen}

\* Names a caller may pass to set_interpolation_method.
MethodArgs == {"linear", "spline", "cubic"}

---------------------------------------------------------------------------
(* The state machine.                                                      *)

NoObject == [error |-> "absent"]

NoCall == [op |-> "none"]

Call(op, args, ret) ==
    [op |-> op, args |-> args, error |-> ret.error, value |-> ret.value]

NoHistory == [lastSet |-> "linear", tampered |-> FALSE]

\* An instance exists and no call is pending.
Idle(obj) == obj.error = "none" /\ last.op = "none"

InitAeff2D ==
    /\ \/ \E no \in OffsetBinCounts, ne \in EnergyBinCounts, width \in BinWidths,
             seed \in 0..MaxAreaSeed, eu \in EnergyUnits, ou \in AngleUnits,
             au \in AreaUnits, tri \in Triangulations :
             aeff = Aeff2DFrom(no, ne, width, seed, eu, ou, au, tri)
       \/ \E bad \in BadInputs : aeff = Aeff2DFromBad(bad)
    /\ arf = NoObject
    /\ spectra = <<>>
    /\ last = NoCall
    /\ hist = NoHistory

Evaluate ==
    /\ Idle(aeff)
    /\ \E offset \in OffsetArgs(aeff), energy \in EnergyArgs(aeff) :
         last' = Call("evaluate", [offset |-> offset, energy |-> energy],
                      evaluate(aeff, offset, energy))
    /\ UNCHANGED <<aeff, arf, spectra, hist>>

EvalAtOffset ==
    /\ Idle(aeff)
    /\ \E offset \in OffsetArgs(aeff), energies \in OptionalEnergyArgs(aeff) :
         last' = Call("eval_at_offset", [offset |-> offset, energy |-> energies],
                      eval_at_offset(aeff, offset, energies))
    /\ UNCHANGED <<aeff, arf, spectra, hist>>

EvalAtEnergy ==
    /\ Idle(aeff)
    /\ \E energy \in EnergyArgs(aeff), offsets \in OptionalOffsetArgs(aeff) :
         last' = Call("eval_at_energy", [offset |-> offsets, energy |-> energy],
                      eval_at_energy(aeff, energy, offsets))
    /\ UNCHANGED <<aeff, arf, spectra, hist>>

SetInterpolationMethod ==
    /\ Idle(aeff)
    /\ \E method \in MethodArgs :
         LET ret == set_interpolation_method(aeff, method)
         IN  /\ aeff' = ret.self
             /\ last' = Call("set_interpolation_method", [method |-> method],
                             [error |-> ret.error, value |-> NoQuantity])
             /\ hist' = IF method \in Methods
                        THEN [lastSet |-> method, tampered |-> FALSE]
                        ELSE hist
    /\ UNCHANGED <<arf, spectra>>

\* The caller takes the result; the next call can start.
Return ==
    /\ last.op # "none"
    /\ last' = NoCall
    /\ UNCHANGED <<aeff, arf, spectra, hist>>

\* Client code assigns the private selector directly ("set by hand", as
\* the message of evaluate's NotImplementedError puts it).
HandValues == {"linear", "spline", "nearest"}

SetByHand ==
    /\ Idle(aeff)
    /\ \E value \in HandValues :
         aeff' = [aeff EXCEPT !._interpolation_method = value]
    /\ hist' = [hist EXCEPT !.tampered = TRUE]
    /\ UNCHANGED <<arf, spectra, last>>

---------------------------------------------------------------------------
(* TableEffectiveArea: inputs and calls.                                   *)

MaxArfBins == 3

\* Bins with upper edges 2, 4, 8, ... TeV; the lower edge of a bin is half
\* its upper edge (contiguous bins) or, with gap, three quarters of it.
ArfEnergyHi(n, unit) ==
    Quantity([k \in 1..n |-> DecConvert(DecInt(2 ^ k), "TeV", unit)],
             <<n>>, unit)

ArfEnergyLo(n, gap, unit) ==
    Quantity([k \in 1..n |->
                DecConvert(DecNorm((IF gap THEN 15 ELSE 10) * (2 ^ (k - 1)), -1),
                           "TeV", unit)],
             <<n>>, unit)

\* Areas 10, 20, 30, ... m^2.
ArfArea(n, unit) ==
    Quantity([k \in 1..n |-> DecConvert(DecInt(10 * k), "m2", unit)], <<n>>, unit)

\* The default thresholds of __init__.
DefaultThreshLo == Quantity(<<DecNorm(1, -1)>>, <<>>, "TeV")
DefaultThreshHi == Quantity(<<DecInt(100)>>, <<>>, "TeV")

\* Energies to ask for, in tenths of a TeV, and arguments that are none.
ArfEnergyArgs ==
    {Quantity(<<DecNorm(t, -1)>>, <<>>, "TeV") :
        t \in {5, 10, 19, 20, 29, 30, 31, 40, 59, 60, 61, 120, 1000}}
    \cup {Quantity(<<DecInt(1900)>>, <<>>, "GeV"),
          Quantity(<<DecInt(3000)>>, <<>>, "GeV"),
          Untagged(<<DecInt(2)>>, <<>>),
          Angle(<<DecInt(2)>>, <<>>, "deg"),
          Quantity(<<DecInt(2)>>, <<>>, "m2")}

InitArf ==
    /\ \/ \E n \in 2..MaxArfBins, gap \in BOOLEAN, eu \in EnergyUnits,
             au \in AreaUnits :
             arf = TableEffectiveArea(ArfEnergyLo(n, gap, eu), ArfEnergyHi(n, eu),
                                      ArfArea(n, au),
                                      DefaultThreshLo, DefaultThreshHi)
       \/ arf = TableEffectiveArea(ArfEnergyLo(2, FALSE, "TeV"),
                                   ArfEnergyHi(2, "TeV"),
                                   Angle(<<DecInt(1), DecInt(2)>>, <<2>>, "deg"),
                                   DefaultThreshLo, DefaultThreshHi)
    /\ aeff = NoObject
    /\ spectra = <<>>
    /\ last = NoCall
    /\ hist = NoHistory

EffectiveAreaAtEnergy ==
    /\ Idle(arf)
    /\ \E energy \in ArfEnergyArgs :
         last' = Call("effective_area_at_energy", [energy |-> energy],
                      effective_area_at_energy(arf, energy))
    /\ UNCHANGED <<aeff, arf, spectra, hist>>

---------------------------------------------------------------------------
(* CountsSpectrum: inputs and calls.                                       *)

MaxSpecBins == 2
MaxCount == 1

\* Bin edges, in TeV.
EdgeValues == {1, 2, 4, 8}

\* Ascending edge sequences of up to MaxSpecBins bins, in TeV, and the
\* edges 1, 2, 4 TeV written in GeV.
Binnings ==
    {Quantity([k \in 1..Cardinality(S) |-> DecInt(SetToSortedSeq(S)[k])],
              <<Cardinality(S)>>, "TeV") :
        S \in {T \in SUBSET EdgeValues :
                  Cardinality(T) >= 2 /\ Cardinality(T) <= MaxSpecBins + 1}}
    \cup {Quantity(<<DecInt(1000), DecInt(2000), DecInt(4000)>>, <<3>>, "GeV")}

\* The meta argument: absent, or a live time in seconds.
MetaArgs == {EmptyMeta, [livetime |-> 7]}

InitCounts ==
    /\ \E ea \in Binnings, eb \in Binnings, ma \in MetaArgs :
         \E ca \in [1..Nbins(ea) -> 0..MaxCount] :
             spectra = <<CountsSpectrum(ca, ea, ma),
                         CountsSpectrum([k \in 1..Nbins(eb) |-> 1], eb,
                                        [livetime |-> 3])>>
    /\ aeff = NoObject
    /\ arf = NoObject
    /\ last = NoCall
    /\ hist = NoHistory

\* Both operands exist and no call is pending.
IdleSpectra == spectra # <<>> /\ last.op = "none"

Add ==
    /\ IdleSpectra
    /\ \E i \in 1..Len(spectra), j \in 1..Len(spectra) :
         LET sum == CountsAdd(spectra[i], spectra[j])
         IN  last' = Call("__add__", [self |-> i, other |-> j],
                          [error |-> sum.error, value |-> sum])
    /\ UNCHANGED <<aeff, arf, spectra, hist>>

Mul ==
    /\ IdleSpectra
    /\ \E i \in 1..Len(spectra), factor \in {0, 2, 3} :
         LET prod == CountsMul(spectra[i], factor)
         IN  last' = Call("__mul__", [self |-> i, other |-> factor],
                          [error |-> prod.error, value |-> prod])
    /\ UNCHANGED <<aeff, arf, spectra, hist>>

MaxEvents == 2

\* Count arrays of every length up to one more than the longest binning.
CountsArgs == UNION {[1..n -> 0..MaxCount] : n \in 0..(MaxSpecBins + 1)}

\* Event energies, in tenths of a TeV.
EventEnergies == {DecNorm(t, -1) : t \in {5, 10, 15, 30, 80, 90}}

\* Event lists of up to MaxEvents events, with a live time in seconds; one
\* of them gives its energies in GeV.
EventLists ==
    {[energy |-> Quantity(e, <<Len(e)>>, "TeV"),
      observation_live_time_duration |-> t] :
        e \in UNION {[1..n -> EventEnergies] : n \in 0..MaxEvents}, t \in {0, 5}}
    \cup {[energy |-> Quantity(<<DecInt(1500), DecInt(2000)>>, <<2>>, "GeV"),
           observation_live_time_duration |-> 5]}

\* The caller holds no instance yet.
InitNone ==
    /\ aeff = NoObject
    /\ arf = NoObject
    /\ spectra = <<>>
    /\ last = NoCall
    /\ hist = NoHistory

NoInstance ==
    /\ aeff = NoObject
    /\ arf = NoObject
    /\ spectra = <<>>
    /\ last.op = "none"

\* CountsSpectrum(counts, energy, meta)
Construct ==
    /\ NoInstance
    /\ \E counts \in CountsArgs, energy \in Binnings, meta \in MetaArgs :
         LET new == CountsSpectrum(counts, energy, meta)
         IN  last' = Call("__init__",
                          [counts |-> counts, energy |-> energy, meta |-> meta],
                          [error |-> new.error, value |-> new])
    /\ UNCHANGED <<aeff, arf, spectra, hist>>

\* CountsSpectrum.from_eventlist(event_list, bins)
FromEventlist ==
    /\ NoInstance
    /\ \E event_list \in EventLists, bins \in Binnings :
         LET new == from_eventlist(event_list, bins)
         IN  last' = Call("from_eventlist",
                          [event_list |-> event_list, bins |-> bins],
                          [error |-> new.error, value |-> new])
    /\ UNCHANGED <<aeff, arf, spectra, hist>>

---------------------------------------------------------------------------
(* Specifications.                                                         *)

Init == InitAeff2D \/ InitArf \/ InitCounts \/ InitNone

Next ==
    \/ Evaluate
    \/ EvalAtOffset
    \/ EvalAtEnergy
    \/ SetInterpolationMethod
    \/ EffectiveAreaAtEnergy
    \/ Add
    \/ Mul
    \/ Construct
    \/ FromEventlist
    \/ Return

\* The public operations.
Spec == Init /\ [][Next]_vars

NextByHand == Next \/ SetByHand

\* The public operations, and client code that writes the selector itself.
SpecByHand == Init /\ [][NextByHand]_vars

---------------------------------------------------------------------------
(* Properties of OffsetDependentTableEffectiveArea.                        *)

\* The physical value of a scalar angle, in degrees.
InDeg(q) == DecConvert(q.data[1], q.unit, "deg")

\* The physical value of a scalar energy, in TeV.
InTeV(q) == DecConvert(q.data[1], q.unit, "TeV")

\* A scalar angle / a scalar energy, whatever its unit.
IsScalarAngle(q) == IsAngle(q) /\ PhysicalType(q.unit) = "angle" /\ q.shape = <<>>
IsScalarEnergy(q) ==
    IsQuantity(q) /\ PhysicalType(q.unit) = "energy" /\ q.shape = <<>>

\* The stored area of node (i, j), as the exact value an interpolator returns.
NodeArea(self, i, j) ==
    Rational(DecToInt(self.eff_area.data[(i - 1) * Len(self.energy.data) + j]), 1)

\* The query (offset, energy) is node (i, j) of the table's grid: the
\* center of offset bin i and of energy bin j, as physical quantities.
IsNode(self, offset, energy, i, j) ==
    /\ IsScalarAngle(offset)
    /\ IsScalarEnergy(energy)
    /\ InDeg(offset) = InDeg(ElementOf(self.offset, i))
    /\ InTeV(energy) = InTeV(ElementOf(self.energy, j))

\* C1: with the linear method, evaluating at a grid node (the center of
\* offset bin i and of energy bin j) returns exactly the area stored for
\* (i, j), whatever units the table was built from.
C1_LinearExactAtNodes ==
    (last.op = "evaluate" /\ aeff._interpolation_method = "linear") =>
        \A i \in 1..Len(aeff.offset.data), j \in 1..Len(aeff.energy.data) :
            IsNode(aeff, last.args.offset, last.args.energy, i, j) =>
                /\ last.error = "none"
                /\ last.value.data = <<NodeArea(aeff, i, j)>>

\* C2: after a successful construction every quantity the table holds is
\* in its canonical unit: energies in TeV, offsets in degree, areas in m^2.
C2_CanonicalUnits ==
    aeff.error = "none" =>
        /\ aeff.energ_lo.unit = "TeV"
        /\ aeff.energ_hi.unit = "TeV"
        /\ aeff.energy.unit = "TeV"
        /\ aeff.offset_lo.unit = "deg"
        /\ aeff.offset_hi.unit = "deg"
        /\ aeff.offset.unit = "deg"
        /\ aeff.eff_area.unit = "m2"
        /\ aeff.eff_area_reco.unit = "m2"

\* C3: the result of evaluate has the shape its two arguments broadcast
\* to, under either interpolation method.
C3_BroadcastShape ==
    (last.op = "evaluate" /\ last.error = "none") =>
        last.value.shape =
            BroadcastShape(last.args.offset.shape, last.args.energy.shape)

\* The scalar query lies outside the convex hull of the grid nodes, the
\* rectangle spanned by the first and last bin centers.
OutsideHull(self, offset, energy) ==
    LET no == Len(self.offset.data)
        ne == Len(self.energy.data)
    IN  /\ IsScalarAngle(offset)
        /\ IsScalarEnergy(energy)
        /\ \/ DecLess(InDeg(offset), InDeg(ElementOf(self.offset, 1)))
           \/ DecLess(InDeg(ElementOf(self.offset, no)), InDeg(offset))
           \/ DecLess(InTeV(energy), InTeV(ElementOf(self.energy, 1)))
           \/ DecLess(InTeV(ElementOf(self.energy, ne)), InTeV(energy))

\* C4: a query outside the convex hull of the grid nodes raises nothing;
\* the linear method answers NaN, the spline method a finite value.
C4_OutsideHullValue ==
    (last.op = "evaluate"
        /\ OutsideHull(aeff, last.args.offset, last.args.energy)) =>
        /\ last.error = "none"
        /\ aeff._interpolation_method = "linear" => last.value.data = <<NaN>>
        /\ aeff._interpolation_method = "spline" =>
               IsFinite(last.value.data[1])

\* The interpolator a returned value came from: the spline's values are
\* spline values, the linear interpolator's are rationals or NaN.
UsedInterpolator(value) ==
    IF \E k \in 1..Len(value.data) : value.data[k].kind = "spline"
    THEN "spline"
    ELSE "linear"

\* C5: a fresh table uses the linear method; evaluate uses the interpolator
\* named by the most recent successful set_interpolation_method; and
\* evaluate raises NotImplementedError only when the stored selector is
\* neither "linear" nor "spline".
C5_MethodInEffect ==
    /\ (aeff.error = "none" /\ ~hist.tampered) =>
           aeff._interpolation_method = hist.lastSet
    /\ (last.op = "evaluate" /\ last.error = "none" /\ ~hist.tampered) =>
           UsedInterpolator(last.value) = hist.lastSet
    /\ (last.op = "evaluate" /\ last.error = "NotImplementedError") =>
           aeff._interpolation_method \notin Methods

\* evaluate answered from the spline after set_interpolation_method chose it.
C5_Witness ==
    /\ last.op = "evaluate"
    /\ last.error = "none"
    /\ ~hist.tampered
    /\ hist.lastSet = "spline"
    /\ UsedInterpolator(last.value) = "spline"

\* C6: set_interpolation_method with a name other than "linear" and
\* "spline" fails and leaves the table as it was; through the public
\* operations the selector of a table is always "linear" or "spline".
C6_SelectorValid ==
    /\ [](aeff.error = "none" => aeff._interpolation_method \in Methods)
    /\ [][(last'.op = "set_interpolation_method"
              /\ last'.args.method \notin Methods) =>
              (last'.error = "NotImplementedError" /\ aeff' = aeff)]_vars

\* A rejected name after "spline" had been chosen: the selector is still
\* "spline".
C6_Witness ==
    /\ last.op = "set_interpolation_method"
    /\ last.args.method = "cubic"
    /\ last.error = "NotImplementedError"
    /\ aeff._interpolation_method = "spline"

\* C7: eval_at_offset(o, energies) is evaluate(o, energies), and
\* eval_at_energy(e, offsets) is evaluate(offsets, e), where an omitted
\* array stands for the table's stored bin centers; entry j of a result
\* over the stored centers is evaluate at center j alone.
C7_Wrappers ==
    /\ last.op = "eval_at_offset" =>
         LET omitted == IsEmptyList(last.args.energy)
             energies == IF omitted THEN aeff.energy ELSE last.args.energy
             ref == evaluate(aeff, last.args.offset, energies)
         IN  /\ last.error = ref.error
             /\ last.value = ref.value
             /\ (omitted /\ last.error = "none" /\ last.args.offset.shape = <<>>) =>
                    /\ Len(last.value.data) = Len(aeff.energy.data)
                    /\ \A j \in 1..Len(aeff.energy.data) :
                         last.value.data[j] =
                             evaluate(aeff, last.args.offset,
                                      ElementOf(aeff.energy, j)).value.data[1]
    /\ last.op = "eval_at_energy" =>
         LET omitted == IsEmptyList(last.args.offset)
             offsets == IF omitted THEN aeff.offset ELSE last.args.offset
             ref == evaluate(aeff, offsets, last.args.energy)
         IN  /\ last.error = ref.error
             /\ last.value = ref.value
             /\ (omitted /\ last.error = "none" /\ last.args.energy.shape = <<>>) =>
                    /\ Len(last.value.data) = Len(aeff.offset.data)
                    /\ \A i \in 1..Len(aeff.offset.data) :
                         last.value.data[i] =
                             evaluate(aeff, ElementOf(aeff.offset, i),
                                      last.args.energy).value.data[1]

\* eval_at_offset without energies answered with one area per energy bin.
C7_Witness ==
    /\ last.op = "eval_at_offset"
    /\ IsEmptyList(last.args.energy)
    /\ last.error = "none"
    /\ Len(last.value.data) = Len(aeff.energy.data)
    /\ last.value.data[1].kind = "rational"

\* The argument is not tagged as an angle / as an energy.
NotAngle(q) == ~IsQuantity(q) \/ PhysicalType(q.unit) # "angle"
NotEnergy(q) == ~IsQuantity(q) \/ PhysicalType(q.unit) # "energy"

EvalOps == {"evaluate", "eval_at_offset", "eval_at_energy"}

\* One of the arguments given to the call is not of its kind.
BadArgs(call) ==
    \/ call.op = "evaluate"
         /\ (NotAngle(call.args.offset) \/ NotEnergy(call.args.energy))
    \/ call.op = "eval_at_offset"
         /\ \/ NotAngle(call.args.offset)
            \/ ~IsEmptyList(call.args.energy) /\ NotEnergy(call.args.energy)
    \/ call.op = "eval_at_energy"
         /\ \/ NotEnergy(call.args.energy)
            \/ ~IsEmptyList(call.args.offset) /\ NotAngle(call.args.offset)

\* C8: evaluate, eval_at_offset and eval_at_energy fail, returning nothing
\* and leaving the table unchanged, when the offset is not tagged as an
\* angle or the energy is not tagged as an energy.
C8_TypeErrors ==
    [][(last'.op \in EvalOps /\ BadArgs(last')) =>
          (last'.error # "none" /\ last'.value = NoQuantity /\ aeff' = aeff)]_vars

\* eval_at_energy given an angle as energy: a Quantity, so the wrapper's
\* own check passes, and the conversion to TeV raises.
C8_Witness ==
    /\ last.op = "eval_at_energy"
    /\ IsAngle(last.args.energy)
    /\ last.error = "UnitConversionError"

---------------------------------------------------------------------------
(* Properties of TableEffectiveArea.                                       *)

\* The distance of the query from upper edge k, both in TeV.
EdgeDistance(self, energy, k) ==
    DecAbs(DecSub(DecConvert(self.energy_hi.data[k], self.energy_hi.unit, "TeV"),
                  InTeV(energy)))

\* Bin i is the first of the bins whose upper edge is nearest to the query.
FirstNearestUpperEdge(self, energy, i) ==
    /\ \A k \in 1..Len(self.energy_hi.data) :
         ~DecLess(EdgeDistance(self, energy, k), EdgeDistance(self, energy, i))
    /\ \A k \in 1..(i - 1) :
         DecLess(EdgeDistance(self, energy, i), EdgeDistance(self, energy, k))

\* C9: effective_area_at_energy answers an energy with the area of the
\* bin whose upper edge is nearest to it, the first such bin on a tie; the
\* lower edges play no part.
C9_NearestUpperEdge ==
    last.op = "effective_area_at_energy" =>
        /\ IsScalarEnergy(last.args.energy) => last.error = "none"
        /\ last.error = "none" =>
             \E i \in 1..Len(arf.energy_hi.data) :
                 /\ FirstNearestUpperEdge(arf, last.args.energy, i)
                 /\ last.value =
                        Quantity(<<arf.effective_area.data[i]>>, <<>>, "m2")

\* Bins (1, 2) and (2, 4) TeV with areas 10 and 20 m^2, asked at 1.9 TeV,
\* which lies in the first bin and nearest to its upper edge: 10 m^2.
C9_Witness ==
    /\ last.op = "effective_area_at_energy"
    /\ arf.energy_lo.data = <<DecInt(1), DecInt(2)>>
    /\ arf.energy_hi.data = <<DecInt(2), DecInt(4)>>
    /\ last.args.energy = Quantity(<<DecNorm(19, -1)>>, <<>>, "TeV")
    /\ last.value = Quantity(<<DecInt(10)>>, <<>>, "m2")

---------------------------------------------------------------------------
(* Properties of CountsSpectrum.                                           *)

\* The two spectra have the same bin edges, as physical quantities.
SameBinning(a, b) ==
    /\ Len(a.energy_bounds.data) = Len(b.energy_bounds.data)
    /\ \A k \in 1..Len(a.energy_bounds.data) :
         DecConvert(a.energy_bounds.data[k], a.energy_bounds.unit, "TeV")
             = DecConvert(b.energy_bounds.data[k], b.energy_bounds.unit, "TeV")

\* C10: adding two spectra whose binnings differ in at least one edge
\* fails.
C10_AddRejectsOtherBinning ==
    (last.op = "__add__"
        /\ ~SameBinning(spectra[last.args.self], spectra[last.args.other])) =>
        last.error # "none"

\* C11: adding two spectra a and b of identical binning returns a new
\* spectrum on that binning with counts[k] = a.counts[k] + b.counts[k] for
\* every bin k and livetime = a.livetime + b.livetime; a and b are left
\* unchanged.
C11_AddResult ==
    /\ [](last.op = "__add__" =>
            LET a == spectra[last.args.self]
                b == spectra[last.args.other]
            IN  SameBinning(a, b) =>
                  /\ last.error = "none"
                  /\ last.value.energy_bounds = a.energy_bounds
                  /\ Len(last.value.counts) = Len(a.counts)
                  /\ \A k \in 1..Len(a.counts) :
                       last.value.counts[k] = a.counts[k] + b.counts[k]
                  /\ last.value.meta.livetime = a.meta.livetime + b.meta.livetime)
    /\ [][last'.op = "__add__" => spectra' = spectra]_vars

\* Two different spectra of one binning, with live times 7 s and 3 s, added.
C11_Witness ==
    /\ last.op = "__add__"
    /\ last.args.self # last.args.other
    /\ SameBinning(spectra[1], spectra[2])
    /\ last.error = "none"
    /\ last.value.meta.livetime = 10
    /\ \E k \in 1..Len(last.value.counts) : last.value.counts[k] = 2

\* C12: multiplying a spectrum s by a scalar c returns a new spectrum on
\* the binning of s with counts[k] = c * s.counts[k] for every bin k and
\* the livetime of s, not scaled; s is left unchanged.
C12_MulResult ==
    /\ [](last.op = "__mul__" =>
            LET s == spectra[last.args.self]
                c == last.args.other
            IN  /\ last.error = "none"
                /\ last.value.energy_bounds = s.energy_bounds
                /\ Len(last.value.counts) = Len(s.counts)
                /\ \A k \in 1..Len(s.counts) : last.value.counts[k] = c * s.counts[k]
                /\ last.value.meta.livetime = s.meta.livetime)
    /\ [][last'.op = "__mul__" => spectra' = spectra]_vars

\* A spectrum with a count of 1 and a live time of 7 s, doubled.
C12_Witness ==
    /\ last.op = "__mul__"
    /\ last.args.other = 2
    /\ last.error = "none"
    /\ \E k \in 1..Len(last.value.counts) : last.value.counts[k] = 2
    /\ last.value.meta.livetime = 7

\* One count per energy bin, and the channels numbered 1..nbins.
OneCountPerBin(s) ==
    /\ Len(s.counts) = Nbins(s.energy_bounds)
    /\ s.channels = [k \in 1..Nbins(s.energy_bounds) |-> k]

SpectrumOps == {"__init__", "__add__", "__mul__", "from_eventlist"}

\* C13: every spectrum that exists, whether it came from the constructor,
\* from +, from * or from from_eventlist, has one count per energy bin and
\* channels 1..nbins; constructing one from a counts array of any other
\* length fails with ValueError.
C13_OneCountPerBin ==
    /\ \A i \in 1..Len(spectra) : OneCountPerBin(spectra[i])
    /\ (last.op \in SpectrumOps /\ last.error = "none") =>
           OneCountPerBin(last.value)
    /\ (last.op = "__init__"
           /\ Len(last.args.counts) # Nbins(last.args.energy)) =>
           last.error = "ValueError"

\* The constructor given one count more than there are bins.
C13_Witness ==
    /\ last.op = "__init__"
    /\ Len(last.args.counts) = Nbins(last.args.energy) + 1
    /\ last.error = "ValueError"

\* The number of events whose energy lies in bin k of the edges: from the
\* lower edge up to, not including, the upper edge; in the last bin up to
\* and including it.
EventsInBin(event_list, bins, k) ==
    LET lo == DecConvert(bins.data[k], bins.unit, "TeV")
        hi == DecConvert(bins.data[k + 1], bins.unit, "TeV")
        e(i) == DecConvert(event_list.energy.data[i], event_list.energy.unit, "TeV")
    IN  Cardinality({i \in 1..Len(event_list.energy.data) :
                       /\ ~DecLess(e(i), lo)
                       /\ DecLess(e(i), hi) \/ (k = Nbins(bins) /\ e(i) = hi)})

\* C17: the spectrum from_eventlist returns carries the observation live
\* time of the event list as its livetime, next to the counts of the event
\* energies histogrammed against the bin edges.
C17_EventlistLivetime ==
    (last.op = "from_eventlist" /\ last.error = "none") =>
        /\ last.value.meta.livetime =
               last.args.event_list.observation_live_time_duration
        /\ \A k \in 1..Nbins(last.args.bins) :
             last.value.counts[k] =
                 EventsInBin(last.args.event_list, last.args.bins, k)

---------------------------------------------------------------------------
(* Construction.                                                           *)

\* The construction of the table failed on the class or the physical
\* dimension of an input: it failed, and before it came to the interpolators.
FailedOnInputs(self) ==
    /\ self.error \notin {"none", "absent"}
    /\ "_linear" \notin self.assigned

\* C16: construction is all-or-nothing: when the construction of a
\* TableEffectiveArea, an OffsetDependentTableEffectiveArea or a
\* CountsSpectrum fails, no attribute of the object has been assigned.
C16_AllOrNothing ==
    /\ FailedOnInputs(aeff) => aeff.assigned = {}
    /\ arf.error \notin {"none", "absent"} => arf.assigned = {}
    /\ (last.op = "__init__" /\ last.error # "none") => last.value.assigned = {}

---------------------------------------------------------------------------
(* Properties of the interpolators of OffsetDependentTableEffectiveArea.   *)

\* matrix[i][j], for a matrix stored in C order.
MatrixAt(matrix, i, j) == matrix.data[(i - 1) * matrix.shape[2] + j]

\* C14: for an area matrix of shape (n_offset, n_energy), the sample set of
\* the linear interpolator has n_offset * n_energy points; the point of
\* offset bin i and energy bin j stands at position (i - 1) * n_energy + j
\* (counting from 1), is (offset center i, log10 of energy center j), and
\* is paired with the true-energy area[i][j].
C14_SampleOrder ==
    (aeff.error # "absent" /\ "_linear" \in aeff.assigned) =>
        LET x == IntValues(aeff.offset)
            y == Log10Values(aeff.energy)
            no == Len(x)
            ne == Len(y)
        IN  aeff.eff_area.shape = <<no, ne>> =>
              /\ Len(aeff._linear.points) = no * ne
              /\ Len(aeff._linear.values) = no * ne
              /\ \A i \in 1..no, j \in 1..ne :
                   /\ aeff._linear.points[(i - 1) * ne + j] = <<x[i], y[j]>>
                   /\ aeff._linear.values[(i - 1) * ne + j] =
                          DecToInt(MatrixAt(aeff.eff_area, i, j))

\* A table with more offset bins than energy bins: the sample after the
\* first row of the matrix belongs to the second offset and first energy.
C14_Witness ==
    /\ aeff.error = "none"
    /\ Len(aeff.offset.data) > Len(aeff.energy.data)
    /\ aeff._linear.points[Len(aeff.energy.data) + 1] =
           <<IntValues(aeff.offset)[2], Log10Values(aeff.energy)[1]>>
    /\ aeff._linear.values[Len(aeff.energy.data) + 1] =
           DecToInt(MatrixAt(aeff.eff_area, 2, 1))

\* The table but for its selector.
WithoutSelector(self) == [self EXCEPT !._interpolation_method = ""]

\* C15: after construction, calls of evaluate, eval_at_offset,
\* eval_at_energy and set_interpolation_method leave the grids, both area
\* matrices and both interpolators as they are: only a successful
\* set_interpolation_method changes the table, and only its selector, to
\* the name given.  Both interpolators stay the ones built from the grids
\* and the true-energy areas, so that a switch of method and back gives
\* the results of before.
C15_OnlySelectorChanges ==
    /\ [](aeff.error = "none" =>
            /\ aeff._linear = PrepareLinearInterpolator(aeff, aeff._linear.tri)
            /\ aeff._spline = PrepareSplineInterpolator(aeff))
    /\ [][aeff.error = "none" =>
            /\ WithoutSelector(aeff') = WithoutSelector(aeff)
            /\ aeff' # aeff =>
                 /\ last'.op = "set_interpolation_method"
                 /\ last'.error = "none"
                 /\ aeff'._interpolation_method = last'.args.method]_vars

\* evaluate answered under the spline method, and the linear interpolator
\* is still the one over the table's grid.
C15_Witness ==
    /\ last.op = "evaluate"
    /\ last.error = "none"
    /\ aeff._interpolation_method = "spline"
    /\ Len(aeff._linear.points) = Len(aeff.eff_area.data)
    /\ aeff._linear = PrepareLinearInterpolator(aeff, aeff._linear.tri)

====
